---- MODULE Spec2Model ----
(***************************************************************************)
(* Model of the snapshot engine of vfyne's testing package                 *)
(* (src/testing/vfyne.go): the image store (saveImage / loadImage over     *)
(* PNG), the comparator (imagesEqual / createDiffImage) and the per-case   *)
(* controller VFyneTest.Snapshot, over a small file system.                *)
(*                                                                         *)
(* Images are modelled as Go sees them: a concrete in-memory type          *)
(* (image.RGBA holds alpha-premultiplied colours, image.NRGBA holds        *)
(* straight colours), a bounding size and 8-bit channels.  A colour value  *)
(* returned by At(x, y) is a value of type color.RGBA or color.NRGBA, and  *)
(* Go's == on color.Color interface values compares dynamic type AND       *)
(* fields.  PNG encoding picks its colour type from the pixel data.        *)
(*                                                                         *)
(* The second part models the batch runner of package fynetest             *)
(* (src/fynetest.go): RunTest as the steps between its accesses to shared  *)
(* state (the app, its theme, the clock, the output directory), the        *)
(* sequential loop of RunTests, the goroutines and the semaphore of        *)
(* RunTestsConcurrent, Cleanup; and the two programs around it,            *)
(* Suite.RunCLI (src/builder.go) and the plugin runner                     *)
(* (src/cmd/fynetest/main.go), up to their exit code.                      *)
(*                                                                         *)
(* Specifications:                                                         *)
(*   Spec         Snapshot calls of the testing package                    *)
(*   SpecCapture  the same with Screenshot and with nil captures           *)
(*   SpecRunner   one batch call on a Runner, sequential or concurrent     *)
(*   SpecCleanup  one concurrent batch call with Cleanup at any moment     *)
(*   SpecCLI      a run of Suite.RunCLI or of the plugin runner            *)
(***************************************************************************)
EXTENDS Integers, Sequences, FiniteSets, TLC

VARIABLES
    fs,               \* the file system: path -> file content
    updateSnapshots,  \* the -update-snapshots flag of the running process
    last,             \* what the most recent Snapshot call did
    runs              \* number of Snapshot calls made so far

\* The batch runner (src/fynetest.go) and the programs that drive it.
VARIABLES
    tests,            \* the []Test given to the batch call
    DefaultTheme,     \* Runner.DefaultTheme
    app,              \* Runner.app: NilApp or the identity of the instance
    themeOf,          \* per app instance created so far: its Settings().Theme()
    created,          \* app instances created since the last Cleanup
    cleanups,         \* Cleanup calls made so far
    call,             \* the batch call in progress
    semaphore,        \* number of tokens in the semaphore channel
    pc,               \* per test: where its RunTest call (and goroutine) stands
    testApp,          \* per test: the local testApp of its RunTest call
    window,           \* per test: the window of its RunTest call
    captured,         \* per test: the theme in effect when its canvas was captured
    started,          \* per test: startTime of its RunTest call
    effects,          \* per test: what its RunTest call has done outside the Result
    results,          \* per test: the Result stored for it
    now,              \* the wall clock, in seconds
    outFiles,         \* files under OutputDir: pairs <<path, test that wrote it>>
    proc              \* the command-line process around the batch

\* Values handled by the library functions that keep no state of their own.
VARIABLES
    input,            \* the argument of the function applied last
    output,           \* what the function returned
    builder,          \* the Test a TestBuilder points to (b.test)
    built,            \* the Test values Build has returned so far
    heap              \* the maps and arrays that Test values refer to

svars == <<fs, updateSnapshots, last, runs>>

lvars == <<input, output, builder, built, heap>>

rvars == <<tests, DefaultTheme, app, themeOf, created, cleanups, call, semaphore,
           pc, testApp, window, captured, started, effects, results, now, outFiles,
           proc>>

vars == <<fs, updateSnapshots, last, runs,
          tests, DefaultTheme, app, themeOf, created, cleanups, call, semaphore,
          pc, testApp, window, captured, started, effects, results, now, outFiles,
          proc,
          input, output, builder, built, heap>>

\* no library function has been applied and no TestBuilder exists
NoLibrary ==
    /\ input = <<>>
    /\ output = <<>>
    /\ builder = <<>>
    /\ built = <<>>
    /\ heap = <<>>

\* Bound on the number of Snapshot calls explored.
MaxRuns == 2

----------------------------------------------------------------------------
(* Strings are sequences of one-character strings.                         *)

\* the Kelvin sign, a letter outside ASCII whose lower case is the ASCII k
KelvinSign == "U+212A"

Lower ==
    [c \in {"F", "O", "B", KelvinSign} |->
        CASE c = "F" -> "f" [] c = "O" -> "o" [] c = "B" -> "b" [] c = KelvinSign -> "k"]

\* strings.ToLower on one character
ToLowerChar(c) == IF c \in DOMAIN Lower THEN Lower[c] ELSE c

\* the character class [a-zA-Z0-9_-] of the regular expression
Allowed(c) ==
    c \in {"a", "b", "f", "k", "o", "F", "O", "B", "0", "1", "_", "-"}

RECURSIVE ReplaceRuns(_, _)
\* regexp.ReplaceAllString(name, "_") for `[^a-zA-Z0-9_-]+`: every maximal
\* run of characters outside the class becomes one "_".
ReplaceRuns(s, inRun) ==
    IF s = <<>> THEN <<>>
    ELSE IF Allowed(Head(s)) THEN <<Head(s)>> \o ReplaceRuns(Tail(s), FALSE)
    ELSE IF inRun THEN ReplaceRuns(Tail(s), TRUE)
    ELSE <<"_">> \o ReplaceRuns(Tail(s), TRUE)

RECURSIVE TrimLeft(_)
TrimLeft(s) ==
    IF s # <<>> /\ Head(s) = "_" THEN TrimLeft(Tail(s)) ELSE s

RECURSIVE TrimRight(_)
TrimRight(s) ==
    IF s # <<>> /\ s[Len(s)] = "_" THEN TrimRight(SubSeq(s, 1, Len(s) - 1)) ELSE s

\* strings.Trim(s, "_")
Trim(s) == TrimRight(TrimLeft(s))

\* a sanitizeFilename that trims before it replaces
sanitizeFilenameTrimFirst(name) ==
    LET sanitized == ReplaceRuns(Trim(name), FALSE)
    IN  [i \in 1..Len(sanitized) |-> ToLowerChar(sanitized[i])]

\* sanitizeFilename of the testing package
sanitizeFilename(name) ==
    LET sanitized == Trim(ReplaceRuns(name, FALSE))
    IN  [i \in 1..Len(sanitized) |-> ToLowerChar(sanitized[i])]

PngExt == <<".", "p", "n", "g">>
FailedPrefix == <<"f", "a", "i", "l", "e", "d", "_">>
ActualPrefix == <<"a", "c", "t", "u", "a", "l", "_">>
DiffPrefix == <<"d", "i", "f", "f", "_">>

\* VFyneTest.snapshotDir and VFyneTest.screenshotDir (below testDir)
snapshotDir == "snapshots"
screenshotDir == "screenshots"

\* filepath.Join(dir, file)
Join(dir, file) == <<dir, file>>

\* case names passed to Snapshot
Names == { <<"F", "o", " ">>, <<"b">> }

\* every path a case may read or write: its baseline in the snapshot
\* directory, its screenshot and its failure artifacts in the screenshot
\* directory
AllPaths ==
    { Join(snapshotDir, sanitizeFilename(n) \o PngExt) : n \in Names }
    \cup { Join(screenshotDir, p \o sanitizeFilename(n) \o PngExt) :
             p \in {<<>>, FailedPrefix, ActualPrefix, DiffPrefix}, n \in Names }

----------------------------------------------------------------------------
(* Colours (image/color).                                                  *)

RGBAColor(v) == [type |-> "RGBA", v |-> v]
NRGBAColor(v) == [type |-> "NRGBA", v |-> v]

\* Color.RGBA(): the alpha-premultiplied 16-bit channels of a colour.
\* For color.NRGBA the code computes (R*0x101) * (A*0x101) / 0xffff in uint32;
\* as 0xffff = 0x101 * 0xff this is (R * A * 0x101) / 0xff, written so here
\* to stay inside 32-bit signed integers.
RGBA16(c) ==
    IF c.type = "RGBA"
    THEN <<c.v[1] * 257, c.v[2] * 257, c.v[3] * 257, c.v[4] * 257>>
    ELSE << (c.v[1] * c.v[4] * 257) \div 255,
            (c.v[2] * c.v[4] * 257) \div 255,
            (c.v[3] * c.v[4] * 257) \div 255,
            c.v[4] * 257 >>

\* color.RGBAModel.Convert
ToRGBA(c) ==
    IF c.type = "RGBA" THEN c
    ELSE LET p == RGBA16(c)
         IN  RGBAColor(<<p[1] \div 256, p[2] \div 256, p[3] \div 256, p[4] \div 256>>)

\* color.NRGBAModel.Convert.  For a color.RGBA with 0 < A < 0xff the code
\* computes ((R*0x101) * 0xffff / (A*0x101)) >> 8 per channel, which is
\* ((R * 0xffff) / A) >> 8, truncated to uint8.
ToNRGBA(c) ==
    IF c.type = "NRGBA" THEN c
    ELSE IF c.v[4] = 255
         THEN NRGBAColor(<<c.v[1], c.v[2], c.v[3], 255>>)
         ELSE IF c.v[4] = 0
         THEN NRGBAColor(<<0, 0, 0, 0>>)
         ELSE NRGBAColor(<< (((c.v[1] * 65535) \div c.v[4]) \div 256) % 256,
                            (((c.v[2] * 65535) \div c.v[4]) \div 256) % 256,
                            (((c.v[3] * 65535) \div c.v[4]) \div 256) % 256,
                            c.v[4] >>)

----------------------------------------------------------------------------
(* Images (image.Image): type, size, and pixels in row-major order.        *)

\* the straight-alpha colours a canvas may show
Palette == { <<255, 0, 0, 255>>, <<100, 0, 0, 128>> }

\* image sizes <<width, height>>
Dims == { <<1, 1>>, <<2, 1>> }

NewImage(type, w, h, pix) == [type |-> type, w |-> w, h |-> h, pix |-> pix]

\* img.Bounds(): every image here has Min = (0, 0)
Bounds(img) == <<img.w, img.h>>

\* img.At(x, y)
At(img, x, y) == [type |-> img.type, v |-> img.pix[y * img.w + x + 1]]

Coords(img) == { <<x, y>> : x \in 0..(img.w - 1), y \in 0..(img.h - 1) }

\* the renderings of a canvas, as straight-alpha pixel rows
Renderings ==
    UNION { { <<d, p>> : p \in [1..(d[1] * d[2]) -> Palette] } : d \in Dims }

\* what canvas.Capture() returns: the test driver's canvas paints into a
\* new image.NRGBA
Captures == { NewImage("NRGBA", r[1][1], r[1][2], r[2]) : r \in Renderings }

----------------------------------------------------------------------------
(* The PNG codec (image/png) as saveImage and loadImage use it.            *)

Absent == [kind |-> "absent"]
\* a file that exists but does not hold a decodable PNG
Corrupt == [kind |-> "corrupt"]

\* img.Opaque()
Opaque(img) == \A i \in 1..Len(img.pix) : img.pix[i][4] = 255

\* png.Encode: an opaque 8-bit image is written as truecolour (3 bytes per
\* pixel), any other as truecolour with straight alpha (4 bytes per pixel).
PngEncode(img) ==
    IF Opaque(img)
    THEN [kind |-> "png", ct |-> "TC8", w |-> img.w, h |-> img.h,
          data |-> [i \in 1..Len(img.pix) |->
                       <<img.pix[i][1], img.pix[i][2], img.pix[i][3]>>]]
    ELSE [kind |-> "png", ct |-> "TCA8", w |-> img.w, h |-> img.h,
          data |-> [i \in 1..Len(img.pix) |->
                       ToNRGBA([type |-> img.type, v |-> img.pix[i]]).v]]

\* png.Decode: truecolour decodes to an image.RGBA, truecolour with alpha to
\* an image.NRGBA.
PngDecode(file) ==
    IF file.ct = "TC8"
    THEN NewImage("RGBA", file.w, file.h,
                  [i \in 1..Len(file.data) |->
                      <<file.data[i][1], file.data[i][2], file.data[i][3], 255>>])
    ELSE NewImage("NRGBA", file.w, file.h, file.data)

\* the nil image.Image
NilImage == NewImage("nil", 0, 0, <<>>)

\* Faults the environment may inject into one Snapshot call:
\*   "mkdir"  os.MkdirAll returns an error
\*   "create" os.Create returns an error
\*   "open"   os.Open returns a permission error although the file exists
Faults == {"none", "mkdir", "create", "open"}

\* what os.Create leaves before anything is written: a file of zero bytes,
\* which is not a decodable PNG
EmptyFile == Corrupt

\* saveImage(path, img) on file system f: the new file system, the error,
\* and whether the call panicked.  os.Create comes first; png.Encode then
\* calls img.Bounds(), a nil dereference when img is the nil image.Image.
saveImage(f, path, img, fault) ==
    IF fault = "create"
    THEN [fs |-> f, err |-> TRUE, panic |-> FALSE]
    ELSE IF img = NilImage
    THEN [fs |-> [f EXCEPT ![path] = EmptyFile], err |-> FALSE, panic |-> TRUE]
    ELSE [fs |-> [f EXCEPT ![path] = PngEncode(img)], err |-> FALSE, panic |-> FALSE]

\* loadImage(path) on file system f: the image and the error
loadImage(f, path, fault) ==
    IF f[path].kind = "absent" \/ fault = "open" \/ f[path].kind = "corrupt"
    THEN [img |-> NilImage, err |-> TRUE]
    ELSE [img |-> PngDecode(f[path]), err |-> FALSE]

----------------------------------------------------------------------------
(* The comparator.                                                         *)

\* a.At(x, y) != b.At(x, y) on color.Color interface values: unequal when
\* the dynamic types differ or the fields differ
ColorNeq(e, a) == e # a

\* imagesEqual(a, b) starts with a.Bounds() != b.Bounds(): a method call on a
\* nil image.Image is a nil dereference
imagesEqualPanics(a, b) == a = NilImage \/ b = NilImage

\* imagesEqual(a, b)
imagesEqual(a, b) ==
    IF Bounds(a) # Bounds(b) THEN FALSE
    ELSE \A c \in Coords(a) : ~ColorNeq(At(a, c[1], c[2]), At(b, c[1], c[2]))

\* theme.ErrorColor() of the default theme
ErrorColor == NRGBAColor(<<244, 67, 54, 255>>)

\* createDiffImage without its bounds check: a diff of the expected size is
\* built whatever the size of the capture
createDiffImageAnyBounds(expected, actual) ==
    NewImage("RGBA", expected.w, expected.h,
        [i \in 1..(expected.w * expected.h) |->
           LET x == (i - 1) % expected.w
               y == (i - 1) \div expected.w
           IN  IF x >= actual.w \/ y >= actual.h
                  \/ ColorNeq(At(expected, x, y), At(actual, x, y))
               THEN ToRGBA(ErrorColor).v
               ELSE ToRGBA(At(expected, x, y)).v])

\* createDiffImage(expected, actual): nil when the bounds differ, else a new
\* image.RGBA; RGBA.Set converts the colour it is given to color.RGBA.
createDiffImage(expected, actual) ==
    IF Bounds(expected) # Bounds(actual) THEN NilImage
    ELSE NewImage("RGBA", expected.w, expected.h,
           [i \in 1..(expected.w * expected.h) |->
              LET x == (i - 1) % expected.w
                  y == (i - 1) \div expected.w
                  e == At(expected, x, y)
                  a == At(actual, x, y)
              IN  IF ColorNeq(e, a) THEN ToRGBA(ErrorColor).v ELSE ToRGBA(e).v])

----------------------------------------------------------------------------
(* VFyneTest.Snapshot.                                                     *)

\* filename := sanitizeFilename(name) + ".png"
Filename(name) == sanitizeFilename(name) \o PngExt

\* snapshotPath := filepath.Join(v.snapshotDir, filename)
SnapshotPath(name) == Join(snapshotDir, Filename(name))

\* path := filepath.Join(v.screenshotDir, filename), in v.Screenshot
ScreenshotPath(name) == Join(screenshotDir, Filename(name))

\* tempPath := filepath.Join(v.screenshotDir, "failed_"+filename)
TempPath(name) == Join(screenshotDir, FailedPrefix \o Filename(name))

\* actualPath := filepath.Join(v.screenshotDir, "actual_"+filename)
ActualPath(name) == Join(screenshotDir, ActualPrefix \o Filename(name))

\* diffPath := filepath.Join(v.screenshotDir, "diff_"+filename)
DiffPath(name) == Join(screenshotDir, DiffPrefix \o Filename(name))

\* The effect of one branch of Snapshot:
\*   fs      the file system it leaves
\*   failed  t.Errorf or t.Fatalf was called
\*   fatal   t.Fatalf was called: the call stops there (runtime.Goexit)
\*   msgs    the messages given to t.Logf / t.Errorf / t.Fatalf
\*   wrote   the paths saveImage wrote
\*   panicked  the call ended in a run-time panic
Effect(f, failed, fatal, msgs, wrote) ==
    [fs |-> f, failed |-> failed, fatal |-> fatal, msgs |-> msgs, wrote |-> wrote,
     panicked |-> FALSE]

\* The effect of a branch that ends in a run-time panic; `wrote` holds the
\* files os.Create had already created or truncated.
Panic(f, failed, msgs, wrote) ==
    [fs |-> f, failed |-> failed, fatal |-> FALSE, msgs |-> msgs, wrote |-> wrote,
     panicked |-> TRUE]

\* an update that keeps a baseline that is already there
UpdateBranchKeepExisting(f, name, img, fault) ==
    IF fault = "mkdir"
    THEN Effect(f, TRUE, TRUE, {"Failed to create snapshot directory"}, {})
    ELSE IF f[SnapshotPath(name)].kind # "absent"
    THEN Effect(f, FALSE, FALSE, {"Snapshot updated"}, {})
    ELSE LET s == saveImage(f, SnapshotPath(name), img, fault)
         IN  IF s.err
             THEN Effect(s.fs, TRUE, TRUE, {"Failed to save snapshot"}, {})
             ELSE Effect(s.fs, FALSE, FALSE, {"Snapshot updated"}, {SnapshotPath(name)})

\* the branch taken when *updateSnapshots is set
UpdateBranch(f, name, img, fault) ==
    IF fault = "mkdir"
    THEN Effect(f, TRUE, TRUE, {"Failed to create snapshot directory"}, {})
    ELSE LET s == saveImage(f, SnapshotPath(name), img, fault)
         IN  IF s.panic
             THEN Panic(s.fs, FALSE, {}, {SnapshotPath(name)})
             ELSE IF s.err
             THEN Effect(s.fs, TRUE, TRUE, {"Failed to save snapshot"}, {})
             ELSE Effect(s.fs, FALSE, FALSE, {"Snapshot updated"}, {SnapshotPath(name)})

\* a missing snapshot that is silently created from the capture
MissingBranchRebaseline(f, name, img, fault) ==
    IF fault = "mkdir"
    THEN Effect(f, TRUE, FALSE, {"Snapshot does not exist"}, {})
    ELSE LET s == saveImage(f, SnapshotPath(name), img, fault)
         IN  Effect(s.fs, TRUE, FALSE,
                    {"Snapshot does not exist", "Actual output saved to"},
                    IF s.err THEN {} ELSE {SnapshotPath(name)})

\* verify mode, os.Stat reports that the snapshot does not exist
MissingBranch(f, name, img, fault) ==
    IF fault = "mkdir"
    THEN Effect(f, TRUE, FALSE, {"Snapshot does not exist"}, {})
    ELSE LET s == saveImage(f, TempPath(name), img, fault)
         IN  IF s.panic
             THEN Panic(s.fs, TRUE, {"Snapshot does not exist"}, {TempPath(name)})
             ELSE
             Effect(s.fs, TRUE, FALSE,
                    {"Snapshot does not exist", "Actual output saved to"},
                    IF s.err THEN {} ELSE {TempPath(name)})

\* a mismatch that saves the capture but never the diff
CompareBranchNoDiff(f, name, expected, img, fault) ==
    IF ~imagesEqual(expected, img)
    THEN IF fault = "mkdir"
         THEN Effect(f, TRUE, FALSE, {"Snapshot mismatch"}, {})
         ELSE LET s1 == saveImage(f, ActualPath(name), img, fault)
              IN  Effect(s1.fs, TRUE, FALSE,
                         {"Snapshot mismatch", "Actual output saved to"},
                         IF s1.err THEN {} ELSE {ActualPath(name)})
    ELSE Effect(f, FALSE, FALSE, {"Snapshot matched"}, {})

\* verify mode, the snapshot was loaded as `expected`
CompareBranch(f, name, expected, img, fault) ==
    IF imagesEqualPanics(expected, img)
    THEN Panic(f, FALSE, {}, {})
    ELSE IF ~imagesEqual(expected, img)
    THEN IF fault = "mkdir"
         THEN Effect(f, TRUE, FALSE, {"Snapshot mismatch"}, {})
         ELSE LET s1 == saveImage(f, ActualPath(name), img, fault)
                  diff == createDiffImage(expected, img)
                  s2 == IF diff # NilImage
                        THEN saveImage(s1.fs, DiffPath(name), diff, fault)
                        ELSE [fs |-> s1.fs, err |-> TRUE]
              IN  Effect(s2.fs, TRUE, FALSE,
                         {"Snapshot mismatch", "Actual output saved to"}
                            \cup (IF diff # NilImage THEN {"Diff saved to"} ELSE {}),
                         (IF s1.err THEN {} ELSE {ActualPath(name)})
                            \cup (IF s2.err THEN {} ELSE {DiffPath(name)}))
    ELSE Effect(f, FALSE, FALSE, {"Snapshot matched"}, {})

\* a verify branch that takes every unloadable snapshot for a missing one
VerifyBranchLoadErrorAsMissing(f, name, img, fault) ==
    LET l == loadImage(f, SnapshotPath(name), fault)
    IN  IF l.err
        THEN MissingBranch(f, name, img, fault)
        ELSE CompareBranch(f, name, l.img, img, fault)

\* the branch taken when *updateSnapshots is not set
VerifyBranch(f, name, img, fault) ==
    IF f[SnapshotPath(name)].kind = "absent"
    THEN MissingBranch(f, name, img, fault)
    ELSE LET l == loadImage(f, SnapshotPath(name), fault)
         IN  IF l.err
             THEN Effect(f, TRUE, TRUE, {"Failed to load snapshot"}, {})
             ELSE CompareBranch(f, name, l.img, img, fault)

\* v.Snapshot(name, content): the canvas capture gives img
Snapshot(name, img, fault) ==
    /\ runs < MaxRuns
    /\ \E r \in { IF updateSnapshots
                  THEN UpdateBranch(fs, name, img, fault)
                  ELSE VerifyBranch(fs, name, img, fault) } :
           /\ fs' = r.fs
           /\ last' = [op |-> "Snapshot", name |-> name, img |-> img,
                       update |-> updateSnapshots,
                       fault |-> fault, baseline |-> fs[SnapshotPath(name)],
                       failed |-> r.failed, fatal |-> r.fatal, msgs |-> r.msgs,
                       wrote |-> r.wrote, panicked |-> r.panicked,
                       \* v.window.Close() is the last statement
                       windowClosed |-> ~r.fatal /\ ~r.panicked]
    /\ runs' = runs + 1
    /\ UNCHANGED updateSnapshots
    /\ UNCHANGED rvars
    /\ UNCHANGED lvars

\* the body of v.Screenshot after the capture
ScreenshotBranch(f, name, img, fault) ==
    IF fault = "mkdir"
    THEN Effect(f, TRUE, TRUE, {"Failed to create screenshot directory"}, {})
    ELSE LET s == saveImage(f, ScreenshotPath(name), img, fault)
         IN  IF s.panic
             THEN Panic(s.fs, FALSE, {}, {ScreenshotPath(name)})
             ELSE IF s.err
             THEN Effect(s.fs, TRUE, TRUE, {"Failed to save screenshot"}, {})
             ELSE Effect(s.fs, FALSE, FALSE, {"Screenshot saved"}, {ScreenshotPath(name)})

\* v.Screenshot(name, content): the canvas capture gives img
Screenshot(name, img, fault) ==
    /\ runs < MaxRuns
    /\ \E r \in { ScreenshotBranch(fs, name, img, fault) } :
           /\ fs' = r.fs
           /\ last' = [op |-> "Screenshot", name |-> name, img |-> img,
                       update |-> updateSnapshots,
                       fault |-> fault, baseline |-> fs[SnapshotPath(name)],
                       failed |-> r.failed, fatal |-> r.fatal, msgs |-> r.msgs,
                       wrote |-> r.wrote, panicked |-> r.panicked,
                       \* v.window.Close() is the last statement
                       windowClosed |-> ~r.fatal /\ ~r.panicked]
    /\ runs' = runs + 1
    /\ UNCHANGED updateSnapshots
    /\ UNCHANGED rvars
    /\ UNCHANGED lvars

\* a new `go test` process parses -update-snapshots
StartProcess(u) ==
    /\ updateSnapshots' = u
    /\ UNCHANGED <<fs, last, runs>>
    /\ UNCHANGED rvars
    /\ UNCHANGED lvars

\* `last` before any call was made
NoCall ==
    [op |-> "none", name |-> <<>>, img |-> NilImage, update |-> FALSE, fault |-> "none",
     baseline |-> Absent, failed |-> FALSE, fatal |-> FALSE, msgs |-> {},
     wrote |-> {}, panicked |-> FALSE, windowClosed |-> TRUE]

\* no Runner has been constructed and no batch program runs
NoRunner ==
    /\ tests = <<>>
    /\ DefaultTheme = "nil"
    /\ app = 0
    /\ themeOf = <<>>
    /\ created = 0
    /\ cleanups = 0
    /\ call = [kind |-> "none", arg |-> 0, maxConcurrency |-> 0, dir |-> <<>>,
               returned |-> FALSE]
    /\ semaphore = 0
    /\ pc = <<>>
    /\ testApp = <<>>
    /\ window = <<>>
    /\ captured = <<>>
    /\ started = <<>>
    /\ effects = <<>>
    /\ results = <<>>
    /\ now = 0
    /\ outFiles = {}
    /\ proc = [kind |-> "none", Parallel |-> FALSE, GenerateReport |-> FALSE,
               exited |-> FALSE, code |-> 0, summary |-> FALSE, reportErr |-> "nil",
               StartTime |-> 0, EndTime |-> 0]

Init ==
    /\ fs \in [AllPaths -> {Absent, Corrupt}]
    /\ \A p \in AllPaths : p[1] = screenshotDir => fs[p] = Absent
    /\ updateSnapshots = FALSE
    /\ last = NoCall
    /\ runs = 0
    /\ NoRunner
    /\ NoLibrary

Next ==
    \/ \E u \in BOOLEAN : StartProcess(u)
    \/ \E name \in Names, img \in Captures, fault \in Faults : Snapshot(name, img, fault)

Spec == Init /\ [][Next]_vars

\* The same machine with v.Screenshot and with a canvas whose Capture() may
\* return the nil image.Image.
NextCapture ==
    \/ \E u \in BOOLEAN : StartProcess(u)
    \/ \E name \in Names, img \in Captures \cup {NilImage}, fault \in Faults :
          Snapshot(name, img, fault)
    \/ \E name \in Names, img \in Captures \cup {NilImage}, fault \in Faults :
          Screenshot(name, img, fault)

SpecCapture == Init /\ [][NextCapture]_vars

\* The snapshot machine started on a snapshot directory that holds
\* baselines written by earlier update runs.
InitBaselines ==
    /\ \E b \in [{ SnapshotPath(n) : n \in Names } ->
                    {Absent} \cup { PngEncode(img) : img \in Captures }] :
          fs = [p \in AllPaths |-> IF p \in DOMAIN b THEN b[p] ELSE Absent]
    /\ updateSnapshots = FALSE
    /\ last = NoCall
    /\ runs = 0
    /\ NoRunner
    /\ NoLibrary

SpecBaselines == InitBaselines /\ [][Next]_vars

\* what a PNG cut off before its end is: a file that exists but does not
\* hold a decodable PNG
PartialFile == Corrupt

\* where the process may die inside saveImage(snapshotPath, img): before
\* os.Create, after it, inside png.Encode, after png.Encode
CrashPoints == {"before", "created", "encoding", "written"}

\* the snapshot file a process leaves that dies at the given point
CrashedFile(old, img, point) ==
    CASE point = "before" -> old
      [] point = "created" -> EmptyFile
      [] point = "encoding" -> PartialFile
      [] point = "written" -> PngEncode(img)

\* v.Snapshot(name, content) in update mode when the process dies while
\* saveImage writes the snapshot
SnapshotCrash(name, img, point) ==
    /\ runs < MaxRuns
    /\ updateSnapshots
    /\ fs' = [fs EXCEPT ![SnapshotPath(name)] = CrashedFile(@, img, point)]
    /\ last' = [op |-> "Snapshot", name |-> name, img |-> img,
                update |-> updateSnapshots,
                fault |-> "crash", baseline |-> fs[SnapshotPath(name)],
                failed |-> FALSE, fatal |-> FALSE, msgs |-> {},
                wrote |-> {}, panicked |-> FALSE, windowClosed |-> FALSE]
    /\ runs' = runs + 1
    /\ UNCHANGED updateSnapshots
    /\ UNCHANGED rvars
    /\ UNCHANGED lvars

\* The snapshot machine with processes that may die while they update a
\* snapshot.
NextCrash ==
    \/ \E u \in BOOLEAN : StartProcess(u)
    \/ \E name \in Names, img \in Captures, fault \in Faults : Snapshot(name, img, fault)
    \/ \E name \in Names, img \in Captures, point \in CrashPoints :
          SnapshotCrash(name, img, point)

SpecCrash == Init /\ [][NextCrash]_vars

----------------------------------------------------------------------------
(* The batch runner (src/fynetest.go).                                     *)

\* Bounds on the batches explored: tests per batch, seconds of wall clock,
\* Cleanup calls.
MaxTests == 2
MaxClock == 1
MaxCleanups == 1

\* the nil fyne.Theme, and the theme of an app whose theme was never set
NilTheme == "nil"
FreshTheme == "default"

\* Runner.app == nil
NilApp == 0

\* the characters Test.Validate rejects in a name
invalidChars == {"/", "\\", ":", "*", "?", "\"", "<", ">", "|"}

\* a Validate that accepts every test
ValidateNothing(t) == "nil"

\* Test.Validate: the error it returns, "nil" for none
Validate(t) ==
    IF t.Name = <<>> THEN "test name cannot be empty"
    ELSE IF \E k \in 1..Len(t.Name) : t.Name[k] \in invalidChars
    THEN "test name contains invalid character"
    ELSE IF t.Setup = "nil" THEN "test setup function cannot be nil"
    ELSE IF t.WaitDuration < 0 THEN "wait duration cannot be negative"
    ELSE "nil"

\* sanitizeFilename of package fynetest: every invalid character and every
\* space becomes an underscore
fynetestSanitizeFilename(name) ==
    [k \in 1..Len(name) |->
        IF name[k] \in invalidChars \cup {" "} THEN "_" ELSE name[k]]

\* The tests a batch is made of.
TestPool ==
    { [Name |-> <<"a", " ", "b">>, Theme |-> "dark", Setup |-> "func", WaitDuration |-> 0],
      [Name |-> <<"a", "_", "b">>, Theme |-> NilTheme, Setup |-> "func", WaitDuration |-> 0] }

Batches == UNION { [1..n -> TestPool] : n \in 1..MaxTests }

\* the zero Test
ZeroTest == [Name |-> <<>>, Theme |-> NilTheme, Setup |-> "nil", WaitDuration |-> 0]

\* Result values
NoResult ==
    [Test |-> ZeroTest, Success |-> FALSE, Error |-> "unset", Screenshot |-> FALSE,
     ScreenshotPath |-> <<>>, Duration |-> 0]

Failure(err, shot) ==
    [Test |-> ZeroTest, Success |-> FALSE, Error |-> err, Screenshot |-> shot,
     ScreenshotPath |-> <<>>, Duration |-> 0]

\* a successful Result that does not carry the path of its file
SuccessWithoutPath(path) ==
    [Test |-> ZeroTest, Success |-> TRUE, Error |-> "nil", Screenshot |-> TRUE,
     ScreenshotPath |-> <<>>, Duration |-> 0]

Success(path) ==
    [Test |-> ZeroTest, Success |-> TRUE, Error |-> "nil", Screenshot |-> TRUE,
     ScreenshotPath |-> path, Duration |-> 0]

\* what a RunTest call has done so far besides building its Result
NoEffects == [mkdir |-> FALSE, setup |-> FALSE, file |-> <<>>]

\* filepath.Join(r.OutputDir, fmt.Sprintf("%s_%s.png", sanitized, timestamp));
\* the timestamp has the resolution of one second
OutputPath(dir, name, clock) == <<dir, fynetestSanitizeFilename(name), clock>>

\* a runner that always builds a new app
ensureAppAlwaysNew(a, fresh) == fresh

\* ensureApp, under r.mu: the instance it returns, `fresh` being the
\* identity app.New() would give
ensureApp(a, fresh) == IF a = NilApp THEN fresh ELSE a

\* theme := test.Theme; if theme == nil { theme = r.DefaultTheme }
EffectiveTheme(t, d) == IF t.Theme # NilTheme THEN t.Theme ELSE d

\* a maxConcurrency used as it was passed
CapacityAsGiven(maxConcurrency) == maxConcurrency

\* maxConcurrency as RunTestsConcurrent uses it
Capacity(maxConcurrency) == IF maxConcurrency <= 0 THEN 1 ELSE maxConcurrency

\* a semaphore that never blocks
CanSendAlways(held, capacity) == TRUE

\* semaphore <- struct{}{} can proceed: the channel buffer is not full
CanSend(held, capacity) == held < capacity

Concurrent == call.kind = "RunTestsConcurrent"

\* the tests whose RunTest call is in progress
Executing == { i \in DOMAIN pc : pc[i] \in {"start", "setTheme", "render"} }

NoCallInProgress ==
    [kind |-> "none", arg |-> 0, maxConcurrency |-> 0, dir |-> <<>>, returned |-> FALSE]

NoProcess ==
    [kind |-> "none", Parallel |-> FALSE, GenerateReport |-> FALSE,
     exited |-> FALSE, code |-> 0, summary |-> FALSE, reportErr |-> "nil",
     StartTime |-> 0, EndTime |-> 0]

\* the locals of the calls of a batch of n tests
StartBatch(kind, arg, dir, first) ==
    /\ call' = [kind |-> kind, arg |-> arg, maxConcurrency |-> Capacity(arg), dir |-> dir,
                returned |-> FALSE]
    /\ pc' = [i \in 1..Len(tests) |-> first]
    /\ testApp' = [i \in 1..Len(tests) |-> NilApp]
    /\ window' = [i \in 1..Len(tests) |-> "none"]
    /\ captured' = [i \in 1..Len(tests) |-> "none"]
    /\ started' = [i \in 1..Len(tests) |-> 0]
    /\ effects' = [i \in 1..Len(tests) |-> NoEffects]
    /\ results' = [i \in 1..Len(tests) |-> NoResult]
    /\ semaphore' = 0

\* r.RunTests(tests): the loop has not started a test yet
RunTests ==
    /\ proc.kind = "none" /\ call.kind = "none"
    /\ proc' = [NoProcess EXCEPT !.kind = "api"]
    /\ StartBatch("RunTests", 0, <<"test-screenshots">>, "pending")
    /\ UNCHANGED <<tests, DefaultTheme, app, themeOf, created, cleanups, now, outFiles>>
    /\ UNCHANGED svars
    /\ UNCHANGED lvars

\* r.RunTestsConcurrent(tests, maxConcurrency): every goroutine is started
RunTestsConcurrent(maxConcurrency) ==
    /\ proc.kind = "none" /\ call.kind = "none"
    /\ proc' = [NoProcess EXCEPT !.kind = "api"]
    /\ StartBatch("RunTestsConcurrent", maxConcurrency, <<"test-screenshots">>, "spawned")
    /\ UNCHANGED <<tests, DefaultTheme, app, themeOf, created, cleanups, now, outFiles>>
    /\ UNCHANGED svars
    /\ UNCHANGED lvars

\* the loop of RunTests reaches test i
LoopNext(i) ==
    /\ call.kind = "RunTests"
    /\ pc[i] = "pending"
    /\ \A j \in 1..(i - 1) : pc[j] = "done"
    /\ pc' = [pc EXCEPT ![i] = "start"]
    /\ UNCHANGED <<tests, DefaultTheme, app, themeOf, created, cleanups, call, semaphore,
                   testApp, window, captured, started, effects, results, now,
                   outFiles, proc>>
    /\ UNCHANGED svars
    /\ UNCHANGED lvars

\* goroutine i: semaphore <- struct{}{}
Acquire(i) ==
    /\ Concurrent
    /\ pc[i] = "spawned"
    /\ CanSend(semaphore, call.maxConcurrency)
    /\ semaphore' = semaphore + 1
    /\ pc' = [pc EXCEPT ![i] = "start"]
    /\ UNCHANGED <<tests, DefaultTheme, app, themeOf, created, cleanups, call,
                   testApp, window, captured, started, effects, results, now,
                   outFiles, proc>>
    /\ UNCHANGED svars
    /\ UNCHANGED lvars

\* RunTest returns res: the deferred window.Close() runs, the caller stores
\* the result
Return(i, res, startTime) ==
    /\ results' = [results EXCEPT ![i] = [res EXCEPT !.Test = tests[i],
                                                     !.Duration = now - startTime]]
    /\ window' = [window EXCEPT ![i] = IF @ = "open" THEN "closed" ELSE @]
    /\ pc' = [pc EXCEPT ![i] = IF Concurrent THEN "returned" ELSE "done"]

\* RunTest of test i, up to ensureApp
RunTestBegin(i, fault) ==
    /\ pc[i] = "start"
    /\ IF Validate(tests[i]) # "nil"
       THEN /\ Return(i, Failure("invalid test configuration", FALSE), now)
            /\ UNCHANGED <<app, themeOf, created, testApp, effects>>
       ELSE IF fault = "mkdir"
       THEN /\ Return(i, Failure("failed to create output directory", FALSE), now)
            /\ UNCHANGED <<app, themeOf, created, testApp, effects>>
       ELSE \E a \in { ensureApp(app, Len(themeOf) + 1) } :
              /\ app' = a
              /\ themeOf' = IF a > Len(themeOf) THEN Append(themeOf, FreshTheme)
                                                ELSE themeOf
              /\ created' = IF a # app THEN created + 1 ELSE created
              /\ testApp' = [testApp EXCEPT ![i] = a]
              /\ effects' = [effects EXCEPT ![i].mkdir = TRUE]
              /\ pc' = [pc EXCEPT ![i] = "setTheme"]
              /\ UNCHANGED <<results, window>>
    /\ started' = [started EXCEPT ![i] = now]
    /\ UNCHANGED <<tests, DefaultTheme, cleanups, call, semaphore, captured, now,
                   outFiles, proc>>
    /\ UNCHANGED svars
    /\ UNCHANGED lvars

\* RunTest of test i: SetTheme and NewWindow
RunTestSetTheme(i) ==
    /\ pc[i] = "setTheme"
    /\ themeOf' = IF EffectiveTheme(tests[i], DefaultTheme) # NilTheme
                  THEN [themeOf EXCEPT ![testApp[i]] = EffectiveTheme(tests[i], DefaultTheme)]
                  ELSE themeOf
    /\ window' = [window EXCEPT ![i] = "open"]
    /\ pc' = [pc EXCEPT ![i] = "render"]
    /\ UNCHANGED <<tests, DefaultTheme, app, created, cleanups, call, semaphore,
                   testApp, captured, started, effects, results, now, outFiles, proc>>
    /\ UNCHANGED svars
    /\ UNCHANGED lvars

\* RunTest of test i: Setup, Show, Capture, saveImage
RunTestCapture(i, fault) ==
    /\ pc[i] = "render"
    /\ IF fault = "content"
       THEN /\ Return(i, Failure("test setup returned nil content", FALSE), started[i])
            /\ effects' = [effects EXCEPT ![i].setup = TRUE]
            /\ UNCHANGED <<captured, outFiles>>
       ELSE IF fault = "canvas"
       THEN /\ Return(i, Failure("failed to get canvas from window", FALSE), started[i])
            /\ effects' = [effects EXCEPT ![i].setup = TRUE]
            /\ UNCHANGED <<captured, outFiles>>
       ELSE IF fault = "capture"
       THEN /\ Return(i, Failure("failed to capture canvas image", FALSE), started[i])
            /\ effects' = [effects EXCEPT ![i].setup = TRUE]
            /\ UNCHANGED <<captured, outFiles>>
       ELSE /\ captured' = [captured EXCEPT ![i] = themeOf[testApp[i]]]
            /\ IF fault = "create"
               THEN /\ Return(i, Failure("failed to save screenshot", TRUE), started[i])
                    /\ effects' = [effects EXCEPT ![i].setup = TRUE]
                    /\ UNCHANGED outFiles
               ELSE \E p \in { OutputPath(call.dir, tests[i].Name, now) } :
                      /\ outFiles' = { f \in outFiles : f[1] # p } \cup { <<p, i>> }
                      /\ effects' = [effects EXCEPT ![i].setup = TRUE, ![i].file = p]
                      /\ Return(i, Success(p), started[i])
    /\ UNCHANGED <<tests, DefaultTheme, app, themeOf, created, cleanups, call, semaphore,
                   testApp, started, now, proc>>
    /\ UNCHANGED svars
    /\ UNCHANGED lvars

\* goroutine i: the deferred <-semaphore and wg.Done()
Release(i) ==
    /\ Concurrent
    /\ pc[i] = "returned"
    /\ semaphore' = semaphore - 1
    /\ pc' = [pc EXCEPT ![i] = "done"]
    /\ UNCHANGED <<tests, DefaultTheme, app, themeOf, created, cleanups, call,
                   testApp, window, captured, started, effects, results, now,
                   outFiles, proc>>
    /\ UNCHANGED svars
    /\ UNCHANGED lvars

\* a batch that is given up at the first failed test
BatchOverAtFirstFailure(p, rs) ==
    \/ \A i \in DOMAIN p : p[i] = "done"
    \/ \E i \in DOMAIN p : p[i] = "done" /\ ~rs[i].Success

\* the range loop of RunTests has gone through every test; wg.Wait() has
\* seen every goroutine call wg.Done()
BatchOver(p, rs) == \A i \in DOMAIN p : p[i] = "done"

\* the batch call returns
BatchReturn ==
    /\ call.kind # "none" /\ ~call.returned
    /\ BatchOver(pc, results)
    /\ call' = [call EXCEPT !.returned = TRUE]
    /\ UNCHANGED <<tests, DefaultTheme, app, themeOf, created, cleanups, semaphore,
                   pc, testApp, window, captured, started, effects, results, now,
                   outFiles, proc>>
    /\ UNCHANGED svars
    /\ UNCHANGED lvars

\* r.Cleanup(), under r.mu
Cleanup ==
    /\ cleanups < MaxCleanups
    /\ app' = NilApp
    /\ created' = 0
    /\ cleanups' = cleanups + 1
    /\ UNCHANGED <<tests, DefaultTheme, themeOf, call, semaphore, pc, testApp, window,
                   captured, started, effects, results, now, outFiles, proc>>
    /\ UNCHANGED svars
    /\ UNCHANGED lvars

\* a second passes
Tick ==
    /\ now < MaxClock
    /\ now' = now + 1
    /\ UNCHANGED <<tests, DefaultTheme, app, themeOf, created, cleanups, call, semaphore,
                   pc, testApp, window, captured, started, effects, results,
                   outFiles, proc>>
    /\ UNCHANGED svars
    /\ UNCHANGED lvars

\* the snapshot engine is not in use
NoSnapshots ==
    /\ fs = [p \in AllPaths |-> Absent]
    /\ updateSnapshots = FALSE
    /\ last = NoCall
    /\ runs = 0

\* a Runner was constructed and given a batch
InitRunner ==
    /\ NoSnapshots
    /\ NoLibrary
    /\ tests \in Batches
    /\ DefaultTheme \in {NilTheme, "light"}
    /\ app = NilApp
    /\ themeOf = <<>>
    /\ created = 0
    /\ cleanups = 0
    /\ call = NoCallInProgress
    /\ semaphore = 0
    /\ pc = <<>>
    /\ testApp = <<>>
    /\ window = <<>>
    /\ captured = <<>>
    /\ started = <<>>
    /\ effects = <<>>
    /\ results = <<>>
    /\ now = 0
    /\ outFiles = {}
    /\ proc = NoProcess

\* what the environment makes go wrong in a RunTest call
BeginFaults == {"none", "mkdir"}
CaptureFaults == {"none", "content", "canvas", "capture", "create"}

RunTestStep ==
    \/ \E i \in DOMAIN pc, fault \in BeginFaults : RunTestBegin(i, fault)
    \/ \E i \in DOMAIN pc : RunTestSetTheme(i)
    \/ \E i \in DOMAIN pc, fault \in CaptureFaults : RunTestCapture(i, fault)

\* RunTest calls in which only the capture can fail
RunTestStepFewFaults ==
    \/ \E i \in DOMAIN pc : RunTestBegin(i, "none")
    \/ \E i \in DOMAIN pc : RunTestSetTheme(i)
    \/ \E i \in DOMAIN pc, fault \in {"none", "capture"} : RunTestCapture(i, fault)

\* the values of maxConcurrency a caller passes
Concurrencies == {-1, 0, 1, 2}

BatchStep ==
    \/ RunTests
    \/ \E m \in Concurrencies : RunTestsConcurrent(m)
    \/ \E i \in DOMAIN pc : LoopNext(i)
    \/ \E i \in DOMAIN pc : Acquire(i)
    \/ RunTestStep
    \/ \E i \in DOMAIN pc : Release(i)
    \/ BatchReturn

\* One batch call on a Runner, while the clock runs.
NextRunner ==
    \/ BatchStep
    \/ Tick

SpecRunner == InitRunner /\ [][NextRunner]_vars

\* One batch call on a Runner whose goroutines are all scheduled: the Go
\* scheduler runs every goroutine that can take a step, and every step of
\* RunTest returns.
SpecLive == InitRunner /\ [][BatchStep]_vars /\ WF_vars(BatchStep)

\* One concurrent batch call on a Runner, with Cleanup called at any moment.
NextCleanup ==
    \/ \E m \in Concurrencies : RunTestsConcurrent(m)
    \/ \E i \in DOMAIN pc : Acquire(i)
    \/ RunTestStepFewFaults
    \/ \E i \in DOMAIN pc : Release(i)
    \/ BatchReturn
    \/ Cleanup

SpecCleanup == InitRunner /\ [][NextCleanup]_vars

\* tests that Test.Validate rejects: an empty name, a name with an invalid
\* character, a nil Setup, a negative WaitDuration
InvalidTests ==
    { [Name |-> <<>>, Theme |-> NilTheme, Setup |-> "func", WaitDuration |-> 0],
      [Name |-> <<"a", "/">>, Theme |-> NilTheme, Setup |-> "func", WaitDuration |-> 0],
      [Name |-> <<"a">>, Theme |-> NilTheme, Setup |-> "nil", WaitDuration |-> 0],
      [Name |-> <<"a">>, Theme |-> "dark", Setup |-> "func", WaitDuration |-> -1] }

\* a Runner was constructed and given a batch of valid and invalid tests
InitConfig ==
    /\ NoSnapshots
    /\ NoLibrary
    /\ tests \in UNION { [1..n -> TestPool \cup InvalidTests] : n \in 1..MaxTests }
    /\ DefaultTheme \in {NilTheme, "light"}
    /\ app = NilApp
    /\ themeOf = <<>>
    /\ created = 0
    /\ cleanups = 0
    /\ call = NoCallInProgress
    /\ semaphore = 0
    /\ pc = <<>>
    /\ testApp = <<>>
    /\ window = <<>>
    /\ captured = <<>>
    /\ started = <<>>
    /\ effects = <<>>
    /\ results = <<>>
    /\ now = 0
    /\ outFiles = {}
    /\ proc = NoProcess

\* One RunTests call on such a batch.
NextConfig ==
    \/ RunTests
    \/ \E i \in DOMAIN pc : LoopNext(i)
    \/ RunTestStep
    \/ BatchReturn

SpecConfig == InitConfig /\ [][NextConfig]_vars

----------------------------------------------------------------------------
(* The programs around the runner: Suite.RunCLI (src/builder.go) and the   *)
(* plugin runner (src/cmd/fynetest/main.go).                               *)

\* what goes wrong while the reports are written
ReportFaults == {"none", "html", "json"}

\* the runner method Suite.RunTests calls: both branches of its
\* `if s.config.Parallel && len(tests) > 1` are the same call
SuiteBatchCall(parallel, n) ==
    IF parallel /\ n > 1 THEN "RunTestsWithTimestamp" ELSE "RunTestsWithTimestamp"

\* SuiteResult.Passed, and successCount of the plugin runner
Passed(rs) == Cardinality({ i \in DOMAIN rs : rs[i].Success })

\* SuiteResult.Failed, and failureCount of the plugin runner
Failed(rs) == Len(rs) - Passed(rs)

\* GenerateHTMLReport: its error; a failing JSON report is only a warning
GenerateHTMLReport(fault) ==
    IF fault = "html" THEN "failed to create HTML report" ELSE "nil"

\* RunTestsWithTimestamp: RunTests in the subdirectory named after the time
RunTestsWithTimestamp ==
    StartBatch("RunTests", 0, <<"test-screenshots", now>>, "pending")

\* Suite.RunCLI up to the batch call of Suite.RunTests
SuiteRunCLI(parallel, noReport) ==
    /\ proc.kind = "none" /\ call.kind = "none"
    /\ proc' = [NoProcess EXCEPT !.kind = "SuiteCLI", !.Parallel = parallel,
                                 !.GenerateReport = ~noReport, !.StartTime = now]
    /\ SuiteBatchCall(parallel, Len(tests)) = "RunTestsWithTimestamp"
    /\ RunTestsWithTimestamp
    /\ UNCHANGED <<tests, DefaultTheme, app, themeOf, created, cleanups, now, outFiles>>
    /\ UNCHANGED svars
    /\ UNCHANGED lvars

\* Suite.RunTests after the batch, and the rest of Suite.RunCLI
SuiteFinish(fault) ==
    /\ proc.kind = "SuiteCLI" /\ ~proc.exited /\ call.returned
    /\ \E err \in { IF proc.GenerateReport THEN GenerateHTMLReport(fault) ELSE "nil" } :
          proc' = IF err # "nil"
                  THEN [proc EXCEPT !.exited = TRUE, !.code = 1, !.reportErr = err,
                                    !.EndTime = now]
                  ELSE [proc EXCEPT !.exited = TRUE, !.summary = TRUE, !.EndTime = now,
                                    !.code = IF Failed(results) > 0 THEN 1 ELSE 0,
                                    !.reportErr =
                                        IF proc.GenerateReport /\ fault = "json"
                                        THEN "Warning: Failed to generate JSON report"
                                        ELSE "nil"]
    /\ UNCHANGED <<tests, DefaultTheme, app, themeOf, created, cleanups, call, semaphore,
                   pc, testApp, window, captured, started, effects, results, now,
                   outFiles>>
    /\ UNCHANGED svars
    /\ UNCHANGED lvars

\* main of the plugin runner up to the batch call
PluginMain ==
    /\ proc.kind = "none" /\ call.kind = "none"
    /\ proc' = [NoProcess EXCEPT !.kind = "plugin", !.GenerateReport = TRUE]
    /\ RunTestsWithTimestamp
    /\ UNCHANGED <<tests, DefaultTheme, app, themeOf, created, cleanups, now, outFiles>>
    /\ UNCHANGED svars
    /\ UNCHANGED lvars

\* main of the plugin runner after the batch
PluginFinish(fault) ==
    /\ proc.kind = "plugin" /\ ~proc.exited /\ call.returned
    /\ proc' = [proc EXCEPT !.exited = TRUE, !.summary = TRUE,
                            !.code = IF Failed(results) > 0 THEN 1 ELSE 0,
                            !.reportErr =
                                IF GenerateHTMLReport(fault) # "nil"
                                THEN "Warning: Failed to create HTML report"
                                ELSE IF fault = "json"
                                THEN "Warning: Failed to generate JSON report"
                                ELSE "nil"]
    /\ UNCHANGED <<tests, DefaultTheme, app, themeOf, created, cleanups, call, semaphore,
                   pc, testApp, window, captured, started, effects, results, now,
                   outFiles>>
    /\ UNCHANGED svars
    /\ UNCHANGED lvars

\* SuiteResult.Duration of the suite result the CLI prints
SuiteResultDuration == proc.EndTime - proc.StartTime

\* the runner of NewSuite and of the plugin runner: NewRunner's defaults
InitCLI ==
    /\ InitRunner
    /\ DefaultTheme = "light"

NextCLI ==
    \/ \E parallel \in BOOLEAN, noReport \in BOOLEAN : SuiteRunCLI(parallel, noReport)
    \/ PluginMain
    \/ \E i \in DOMAIN pc : LoopNext(i)
    \/ RunTestStep
    \/ BatchReturn
    \/ \E fault \in ReportFaults : SuiteFinish(fault)
    \/ \E fault \in ReportFaults : PluginFinish(fault)

SpecCLI == InitCLI /\ [][NextCLI]_vars

\* The same programs while the clock runs.
NextTimed ==
    \/ NextCLI
    \/ Tick

SpecTimed == InitCLI /\ [][NextTimed]_vars

----------------------------------------------------------------------------
(* Run statistics: ReportGenerator.createSummary (src/unnamed/part_005)    *)
(* and the methods of SuiteResult (src/builder.go).                        *)

\* Bounds on the result sequences summarized: their length, and the
\* duration of one result in seconds.
MaxResults == 3
MaxDuration == 1

RECURSIVE GCD(_, _)
GCD(a, b) == IF b = 0 THEN a ELSE GCD(b, a % b)

\* float64(passed) / float64(total) * 100, for total > 0, as the fraction
\* in lowest terms <<numerator, denominator>>; the rounding of float64 is
\* not modelled
Rate(passed, total) ==
    <<(100 * passed) \div GCD(100 * passed, total), total \div GCD(100 * passed, total)>>

\* the float64 0
ZeroRate == <<0, 1>>

\* SuiteResult.Total
Total(rs) == Len(rs)

\* SuiteResult.PassRate
PassRate(rs) == IF Total(rs) = 0 THEN ZeroRate ELSE Rate(Passed(rs), Total(rs))

\* the range loop of createSummary, from result k on
RECURSIVE createSummaryLoop(_, _, _)
createSummaryLoop(rs, k, summary) ==
    IF k > Len(rs) THEN summary
    ELSE createSummaryLoop(rs, k + 1,
            [summary EXCEPT !.Passed = IF rs[k].Success THEN @ + 1 ELSE @,
                            !.Failed = IF rs[k].Success THEN @ ELSE @ + 1,
                            !.Duration = @ + rs[k].Duration])

\* a summary that counts every result as failed
createSummaryAllFailed(rs) ==
    [Total |-> Len(rs), Passed |-> 0, Failed |-> Len(rs), Duration |-> 0,
     PassRate |-> ZeroRate]

\* ReportGenerator.createSummary
createSummary(rs) ==
    LET summary == createSummaryLoop(rs, 1,
                       [Total |-> Len(rs), Passed |-> 0, Failed |-> 0, Duration |-> 0,
                        PassRate |-> ZeroRate])
    IN  IF summary.Total > 0
        THEN [summary EXCEPT !.PassRate = Rate(summary.Passed, summary.Total)]
        ELSE summary

\* the results a sequence to summarize is made of
SummaryResults == [Success : BOOLEAN, Duration : 0..MaxDuration]

\* createSummary(input) and the SuiteResult methods on the same results
Summarize ==
    /\ output = <<>>
    /\ output' = [summary |-> createSummary(input),
                  suite |-> [Total |-> Total(input), Passed |-> Passed(input),
                             Failed |-> Failed(input), PassRate |-> PassRate(input)]]
    /\ UNCHANGED <<input, builder, built, heap>>
    /\ UNCHANGED svars
    /\ UNCHANGED rvars

InitSummary ==
    /\ NoSnapshots
    /\ NoRunner
    /\ input \in UNION { [1..n -> SummaryResults] : n \in 0..MaxResults }
    /\ output = <<>>
    /\ builder = <<>>
    /\ built = <<>>
    /\ heap = <<>>

NextSummary == Summarize

SpecSummary == InitSummary /\ [][NextSummary]_vars

----------------------------------------------------------------------------
(* File name tokens: sanitizeFilename of package testing                   *)
(* (src/testing/vfyne.go) and of package fynetest (src/fynetest.go).       *)

\* Bound on the length of the names sanitized.
MaxName == 3

\* the characters names are made of
NameChars == {"F", "o", "_", "-", " ", "/", KelvinSign}

NameStrings == UNION { [1..n -> NameChars] : n \in 0..MaxName }

\* the sanitizeFilename of a package
SanitizeIn(pkg, name) ==
    IF pkg = "testing" THEN sanitizeFilename(name) ELSE fynetestSanitizeFilename(name)

\* one of the two functions is called on the name, on the same name once
\* more, and on its own result
Sanitize(pkg) ==
    /\ output = <<>>
    /\ output' = [pkg |-> pkg,
                  token |-> SanitizeIn(pkg, input),
                  repeated |-> SanitizeIn(pkg, input),
                  nested |-> SanitizeIn(pkg, SanitizeIn(pkg, input))]
    /\ UNCHANGED <<input, builder, built, heap>>
    /\ UNCHANGED svars
    /\ UNCHANGED rvars

InitSanitize ==
    /\ NoSnapshots
    /\ NoRunner
    /\ input \in NameStrings
    /\ output = <<>>
    /\ builder = <<>>
    /\ built = <<>>
    /\ heap = <<>>

NextSanitize == \E pkg \in {"testing", "fynetest"} : Sanitize(pkg)

SpecSanitize == InitSanitize /\ [][NextSanitize]_vars

----------------------------------------------------------------------------
(* The test builder (src/cmd/fynetest/main.go).  A Test holds its Size     *)
(* behind a pointer, its Tags in a slice and its Metadata in a map: `heap` *)
(* holds the objects these refer to, a reference is an index into it and   *)
(* 0 is nil.                                                               *)

\* Bound on the number of calls made on one builder.
MaxCalls == 5

MetadataKeys == {"k"}

\* make(map[string]interface{}): no key is present (0)
EmptyMap == [kind |-> "map", m |-> [k \in MetadataKeys |-> 0]]

\* a backing array of the given elements
Array(elems) == [kind |-> "array", elems |-> elems]

\* a fyne.Size variable
SizeVar(w) == [kind |-> "size", w |-> w]

\* the capacity append grows a slice of strings to, below 256 elements
GrowCap(oldCap, needed) == IF needed > 2 * oldCap THEN needed ELSE 2 * oldCap

\* n zero strings
Zeros(n) == [i \in 1..n |-> ""]

\* append(s, tags...) on heap h: the new slice and the new heap.  Within the
\* capacity the elements are written into the backing array of s, beyond
\* it a new array is allocated.
append(h, s, tags) ==
    IF s.len + Len(tags) <= s.cap
    THEN [slice |-> [s EXCEPT !.len = s.len + Len(tags)],
          heap |-> [h EXCEPT ![s.array] =
                       Array([i \in 1..s.cap |->
                                IF i > s.len /\ i <= s.len + Len(tags)
                                THEN tags[i - s.len] ELSE h[s.array].elems[i]])]]
    ELSE [slice |-> [array |-> Len(h) + 1, len |-> s.len + Len(tags),
                     cap |-> GrowCap(s.cap, s.len + Len(tags))],
          heap |-> Append(h, Array(SubSeq(h[s.array].elems, 1, s.len) \o tags
                                      \o Zeros(GrowCap(s.cap, s.len + Len(tags))
                                                  - s.len - Len(tags))))]

\* what a reader of Test t sees on heap h
Contents(t, h) ==
    [Name |-> t.Name, Description |-> t.Description, Setup |-> t.Setup,
     Theme |-> t.Theme, WaitDuration |-> t.WaitDuration,
     Size |-> IF t.Size = 0 THEN 0 ELSE h[t.Size].w,
     Tags |-> SubSeq(h[t.Tags.array].elems, 1, t.Tags.len),
     Metadata |-> h[t.Metadata].m]

\* a builder method was called: the calls made so far are kept in `input`
Called(method) ==
    /\ Len(input) < MaxCalls
    /\ input' = Append(input, method)
    /\ UNCHANGED output
    /\ UNCHANGED svars
    /\ UNCHANGED rvars

WithDescription(description) ==
    /\ Called("WithDescription")
    /\ builder' = [builder EXCEPT !.Description = description]
    /\ UNCHANGED <<built, heap>>

WithSetup ==
    /\ Called("WithSetup")
    /\ builder' = [builder EXCEPT !.Setup = "func"]
    /\ UNCHANGED <<built, heap>>

WithSize(width) ==
    /\ Called("WithSize")
    /\ heap' = Append(heap, SizeVar(width))
    /\ builder' = [builder EXCEPT !.Size = Len(heap) + 1]
    /\ UNCHANGED built

WithTheme(theme) ==
    /\ Called("WithTheme")
    /\ builder' = [builder EXCEPT !.Theme = theme]
    /\ UNCHANGED <<built, heap>>

WithWaitDuration(duration) ==
    /\ Called("WithWaitDuration")
    /\ builder' = [builder EXCEPT !.WaitDuration = duration]
    /\ UNCHANGED <<built, heap>>

WithTags(tags) ==
    /\ Called("WithTags")
    /\ \E r \in { append(heap, builder.Tags, tags) } :
          /\ builder' = [builder EXCEPT !.Tags = r.slice]
          /\ heap' = r.heap
    /\ UNCHANGED built

WithMetadata(key, value) ==
    /\ Called("WithMetadata")
    /\ heap' = [heap EXCEPT ![builder.Metadata].m[key] = value]
    /\ UNCHANGED <<builder, built>>

\* Build: the copy *b.test is returned unless Validate reports an error;
\* `built` keeps each returned Test with what it held when it was returned
Build ==
    /\ Called("Build")
    /\ built' = IF Validate(builder) # "nil" THEN built
                ELSE Append(built, [test |-> builder, contents |-> Contents(builder, heap)])
    /\ UNCHANGED <<builder, heap>>

\* NewTest(name)
InitBuilder ==
    /\ NoSnapshots
    /\ NoRunner
    /\ input = <<>>
    /\ output = <<>>
    /\ heap = <<Array(<<>>), EmptyMap>>
    /\ builder = [Name |-> <<"a">>, Description |-> "", Setup |-> "nil", Size |-> 0,
                  Theme |-> NilTheme, WaitDuration |-> 0,
                  Tags |-> [array |-> 1, len |-> 0, cap |-> 0], Metadata |-> 2]
    /\ built = <<>>

NextBuilder ==
    \/ \E description \in {"d1", "d2"} : WithDescription(description)
    \/ WithSetup
    \/ \E width \in {1, 2} : WithSize(width)
    \/ \E theme \in {"dark", "light"} : WithTheme(theme)
    \/ \E duration \in {-1, 1} : WithWaitDuration(duration)
    \/ \E tags \in {<<"t">>, <<"u", "v">>} : WithTags(tags)
    \/ \E key \in MetadataKeys, value \in {1, 2} : WithMetadata(key, value)
    \/ Build

SpecBuilder == InitBuilder /\ [][NextBuilder]_vars

----------------------------------------------------------------------------
(* Properties.                                                             *)

\* a Snapshot call has been made, so `last` describes it
Ran == runs > 0

\* the last call ran in verify mode / in update mode
Verified == Ran /\ last.op = "Snapshot" /\ ~last.update
Updated == Ran /\ last.op = "Snapshot" /\ last.update

\* the baseline the last call found, decoded (when it is a readable PNG)
LastExpected == PngDecode(last.baseline)

\* equal dimensions and, at every coordinate, equal RGBA channel values
\* (Color.RGBA()), whatever type holds the pixels
SamePixels(a, b) ==
    /\ Bounds(a) = Bounds(b)
    /\ \A c \in Coords(a) :
          RGBA16(At(a, c[1], c[2])) = RGBA16(At(b, c[1], c[2]))

\* C1: loading the file that saving a capture produced gives an image the
\* comparator judges equal to the capture: after every successful
\* update-mode run, imagesEqual(loadImage(baseline), capture) is true.
C1_RoundTrip ==
    (Updated /\ ~last.failed) =>
        LET l == loadImage(fs, SnapshotPath(last.name), "none")
        IN  ~l.err /\ imagesEqual(l.img, last.img)

\* C2: imagesEqual(a, b) is true exactly when a and b have equal dimensions
\* and equal RGBA channel values at every coordinate, whatever in-memory
\* representation each uses; stated of the baseline a verify-mode run loaded
\* and its capture.
C2_ImagesEqualIffSamePixels ==
    (Verified /\ last.baseline.kind = "png") =>
        (imagesEqual(LastExpected, last.img) <=> SamePixels(LastExpected, last.img))

\* C3: a verify-mode run that finds a baseline pixel-identical to its capture
\* (and meets no I/O fault) ends Matched: the case is not failed and the run
\* writes no file.
C3_IdenticalIsMatched ==
    (Verified /\ last.fault = "none" /\ last.baseline.kind = "png"
        /\ SamePixels(LastExpected, last.img)) =>
        (~last.failed /\ "Snapshot matched" \in last.msgs /\ last.wrote = {})

\* C4: a verify-mode run that finds no baseline (and meets no I/O fault)
\* fails the case, writes the capture to screenshots/actual_<name>.png, and
\* writes neither the baseline path nor diff_<name>.png.
C4_MissingWritesActual ==
    (Verified /\ last.fault = "none" /\ last.baseline.kind = "absent") =>
        /\ last.failed
        /\ ActualPath(last.name) \in last.wrote
        /\ fs[ActualPath(last.name)] = PngEncode(last.img)
        /\ SnapshotPath(last.name) \notin last.wrote
        /\ DiffPath(last.name) \notin last.wrote

\* C5: for a baseline A and a capture B of equal dimensions,
\* createDiffImage(A, B) has their dimensions, shows the marker colour at
\* every position where the colours of A and B differ, and B's own colour
\* (as an image.RGBA holds it) at every position where they are equal.
C5_DiffMarksExactlyTheDifferences ==
    (Verified /\ last.baseline.kind = "png"
        /\ Bounds(LastExpected) = Bounds(last.img)) =>
        LET d == createDiffImage(LastExpected, last.img)
        IN  /\ Bounds(d) = Bounds(last.img)
            /\ \A c \in Coords(last.img) :
                  IF RGBA16(At(LastExpected, c[1], c[2]))
                        # RGBA16(At(last.img, c[1], c[2]))
                  THEN At(d, c[1], c[2]) = ToRGBA(ErrorColor)
                  ELSE At(d, c[1], c[2]) = ToRGBA(At(last.img, c[1], c[2]))

\* the file name of path p begins with the characters of pre
HasPrefix(p, pre) ==
    /\ Len(p[2]) >= Len(pre)
    /\ SubSeq(p[2], 1, Len(pre)) = pre

\* the diff_* files the last call wrote
DiffsWritten ==
    { p \in last.wrote : p[1] = screenshotDir /\ HasPrefix(p, DiffPrefix) }

\* the last call compared its capture with a readable baseline of the same
\* size / of another size
SameSizeBaseline ==
    Verified /\ last.baseline.kind = "png" /\ last.fault # "open"
        /\ Bounds(LastExpected) = Bounds(last.img)
OtherSizeBaseline ==
    Verified /\ last.baseline.kind = "png" /\ last.fault # "open"
        /\ Bounds(LastExpected) # Bounds(last.img)

\* C6: a verify-mode run (meeting no I/O fault) whose baseline and capture
\* have equal dimensions and differ in at least one pixel fails the case and
\* writes both screenshots/actual_<name>.png, holding the capture, and
\* screenshots/diff_<name>.png, holding the diff image.
C6_PixelMismatchWritesActualAndDiff ==
    (SameSizeBaseline /\ last.fault = "none"
        /\ ~SamePixels(LastExpected, last.img)) =>
        /\ last.failed
        /\ "Snapshot mismatch" \in last.msgs
        /\ last.wrote = {ActualPath(last.name), DiffPath(last.name)}
        /\ fs[ActualPath(last.name)] = PngEncode(last.img)
        /\ fs[DiffPath(last.name)] = PngEncode(createDiffImage(LastExpected, last.img))

\* C6 happens: a run found a same-size baseline with other pixels and wrote
\* the two files
C6_Witness ==
    /\ SameSizeBaseline /\ last.fault = "none"
    /\ ~SamePixels(LastExpected, last.img)
    /\ DiffPath(last.name) \in last.wrote
    /\ fs[ActualPath(last.name)] = PngEncode(last.img)

\* C7: a verify-mode run (meeting no I/O fault) whose baseline and capture
\* have different dimensions fails the case, writes actual_<name>.png and no
\* diff file; and no run at all writes more than one diff file, or writes one
\* unless it compared two images of the same dimensions.
C7_SizeMismatchWritesNoDiff ==
    /\ (OtherSizeBaseline /\ last.fault = "none") =>
          /\ last.failed
          /\ "Snapshot mismatch" \in last.msgs
          /\ last.wrote = {ActualPath(last.name)}
          /\ fs[ActualPath(last.name)] = PngEncode(last.img)
    /\ Ran => /\ Cardinality(DiffsWritten) <= 1
              /\ DiffsWritten # {} => SameSizeBaseline

\* C7 happens: a run compared a 1x1 image with a 2x1 image and wrote only the
\* actual file
C7_Witness ==
    /\ OtherSizeBaseline /\ last.fault = "none"
    /\ last.failed
    /\ last.wrote = {ActualPath(last.name)}

\* C8: an update-mode run that saves its capture leaves the baseline file
\* holding exactly that capture, whatever the file held before, and an
\* update-mode run fails only when the directory or the file cannot be
\* written, never because of what the previous baseline was.
C8_UpdateOverwrites ==
    /\ (Updated /\ ~last.failed) =>
          /\ fs[SnapshotPath(last.name)] = PngEncode(last.img)
          /\ SamePixels(PngDecode(fs[SnapshotPath(last.name)]), last.img)
    /\ (Updated /\ last.fault \notin {"mkdir", "create"}) =>
          (~last.failed /\ last.msgs = {"Snapshot updated"})

\* C8 happens: an update-mode run replaced a readable baseline that held
\* another image
C8_Witness ==
    /\ Updated /\ ~last.failed
    /\ last.baseline.kind = "png"
    /\ last.baseline # PngEncode(last.img)
    /\ fs[SnapshotPath(last.name)] = PngEncode(last.img)

\* C9: a step taken while -update-snapshots is not set leaves every file of
\* the snapshots directory as it was: a verify-mode run creates, changes or
\* removes no baseline, whatever its outcome.
C9_VerifyLeavesBaselines ==
    [][ ~updateSnapshots =>
          \A p \in AllPaths : p[1] = snapshotDir => fs'[p] = fs[p] ]_vars

\* C9 happens: a verify-mode run found no baseline, wrote a file, and the
\* baseline is still missing
C9_Witness ==
    /\ Verified /\ last.baseline.kind = "absent"
    /\ last.wrote # {}
    /\ fs[SnapshotPath(last.name)].kind = "absent"

\* C10: a verify-mode run whose baseline file exists but cannot be opened or
\* decoded fails with "Failed to load snapshot"; it does not report
\* "Snapshot does not exist" and does not write the capture the way the
\* missing-baseline branch does.
C10_LoadErrorIsNotMissing ==
    (Verified /\ last.baseline.kind # "absent"
        /\ (last.baseline.kind = "corrupt" \/ last.fault = "open")) =>
        /\ last.failed /\ last.fatal
        /\ last.msgs = {"Failed to load snapshot"}
        /\ last.wrote = {}

\* C10 happens: a verify-mode run met a corrupt baseline file
C10_Witness ==
    /\ Verified /\ last.baseline.kind = "corrupt"
    /\ last.fatal
    /\ "Failed to load snapshot" \in last.msgs

----------------------------------------------------------------------------
(* Window lifetime and nil captures of the testing package.                *)

\* C11: every case that created a window has closed it when the case ends,
\* on every path: also when directory creation, saving or loading the
\* baseline fails (the t.Fatalf paths).
\* Violated: v.window.Close() is the last statement of Snapshot and of
\* Screenshot, not a deferred call, and t.Fatalf ends the goroutine first.
C11_WindowClosedOnEveryPath == Ran => last.windowClosed

\* C12: when the canvas capture returns the nil image, the case ends Failed
\* with a capture error and no baseline, screenshot, actual or diff file is
\* written.
\* Violated: Snapshot and Screenshot do not test the capture for nil; in
\* update mode saveImage creates (or truncates) the baseline and then
\* panics inside png.Encode.
C12_NilCaptureFailsWithoutWriting ==
    (Ran /\ last.img = NilImage) =>
        (last.failed /\ ~last.panicked /\ last.wrote = {})

----------------------------------------------------------------------------
(* The batch runner and the programs around it.                            *)

\* the tests of the batch that have a Result
Recorded == { i \in DOMAIN results : results[i] # NoResult }

\* the theme a test is meant to be rendered under: its own, or the runner's
\* default, or (with neither) the theme a fresh app starts with
OwnTheme(i) ==
    IF EffectiveTheme(tests[i], DefaultTheme) # NilTheme
    THEN EffectiveTheme(tests[i], DefaultTheme)
    ELSE FreshTheme

\* C13: two cases of one batch with distinct names never write the same
\* file, so no case overwrites a file of another case.
\* Violated: sanitizeFilename maps the names "a b" and "a_b" to the same
\* token, and the timestamp that completes the filename has the resolution
\* of one second.
C13_DistinctNamesDistinctFiles ==
    \A i, j \in DOMAIN results :
        (i # j /\ tests[i].Name # tests[j].Name
               /\ results[i].Success /\ results[j].Success)
            => results[i].ScreenshotPath # results[j].ScreenshotPath

\* C14: in every batch the theme in effect on the app when the canvas of a
\* case is captured is the theme of that case, or the runner's DefaultTheme
\* when the case sets none; never a theme set by another case.
\* Violated: RunTest sets the theme on the shared app and captures later,
\* with nothing that keeps another RunTest from setting its theme in
\* between; and with no theme of its own and no DefaultTheme a case is
\* rendered under whatever theme the case before it left.
C14_CapturedUnderOwnTheme ==
    \A i \in DOMAIN captured :
        captured[i] # "none" => captured[i] = OwnTheme(i)

\* C15: with Parallel set and more than one test selected, Suite.RunTests
\* runs the cases concurrently on a pool bounded by MaxConcurrency.
\* Violated: both branches of Suite.RunTests call RunTestsWithTimestamp,
\* which runs the tests one after another.
C15_ParallelRunsConcurrently ==
    (proc.kind = "SuiteCLI" /\ proc.Parallel /\ Len(tests) > 1 /\ call.kind # "none")
        => call.kind = "RunTestsConcurrent"

\* C16: in RunTestsConcurrent the number of cases executing RunTest never
\* exceeds maxConcurrency, and never exceeds 1 when maxConcurrency <= 0.
C16_ConcurrencyBounded ==
    Concurrent =>
        Cardinality(Executing) <= (IF call.arg <= 0 THEN 1 ELSE call.arg)

\* the semaphore is full and another goroutine waits for it
C16_Witness ==
    /\ Concurrent
    /\ call.arg <= 0
    /\ Cardinality(Executing) = 1
    /\ \E i \in DOMAIN pc : pc[i] = "spawned"

\* C17: between two Cleanup calls the runner creates at most one app; every
\* ensureApp returns the runner's instance and never replaces an existing
\* one; the instance is released only by Cleanup.
C17_AtMostOneApp ==
    [][ /\ created' <= 1
        /\ (app # NilApp /\ app' # app) => (app' = NilApp /\ cleanups' = cleanups + 1)
        /\ \A i \in DOMAIN testApp \cap DOMAIN testApp' :
              testApp'[i] # testApp[i] =>
                  (testApp'[i] = app' /\ app' # NilApp /\ (app # NilApp => app' = app))
      ]_vars

\* two RunTest calls in progress at once hold the same app
C17_Witness ==
    /\ Concurrent
    /\ \E i, j \in Executing :
          i # j /\ testApp[i] # NilApp /\ testApp[i] = testApp[j]
    /\ created = 1

\* C18: a failing case never aborts the batch: when the batch call returns
\* every test of the input has been run and has its Result, and a run with
\* a failed case exits with a nonzero code.
C18_FailingCaseNeverAborts ==
    /\ call.returned =>
          \A i \in 1..Len(tests) : pc[i] = "done" /\ i \in Recorded
    /\ (proc.exited /\ \E i \in DOMAIN results : ~results[i].Success)
          => proc.code # 0

\* the first case failed to capture, the second passed, the run failed
C18_Witness ==
    /\ call.returned /\ proc.exited /\ proc.code # 0
    /\ Len(tests) = 2
    /\ results[1].Error = "failed to capture canvas image"
    /\ results[2].Success

\* C19: a failure to write the HTML or the JSON report does not change the
\* outcome: the results are still summarized and the exit status is 0
\* exactly when all cases passed.
\* Violated: Suite.RunTests returns the error of GenerateHTMLReport and
\* Suite.RunCLI then exits with status 1 before it prints the summary.
C19_ReportFailureKeepsOutcome ==
    (proc.exited /\ proc.reportErr # "nil") =>
        /\ proc.summary
        /\ proc.code = 0 <=> \A i \in DOMAIN results : results[i].Success

\* C20: the exit code of the batch program is 0 if and only if every
\* executed case passed.
\* Violated through the report failure of C19: Suite.RunCLI exits with
\* status 1 although every case passed.
C20_ExitZeroIffAllPassed ==
    proc.exited =>
        (proc.code = 0 <=> \A i \in DOMAIN results : results[i].Success)

----------------------------------------------------------------------------
(* The library functions.                                                  *)

\* C21: for every sequence of results, total is its length, passed the
\* number of results with Success, failed = total - passed and passRate =
\* passed / total * 100 (0 when total = 0); createSummary and the methods
\* of SuiteResult give the same values.
C21_SummaryCounts ==
    output # <<>> =>
        /\ output.suite.Total = Len(input)
        /\ output.suite.Passed = Cardinality({ i \in DOMAIN input : input[i].Success })
        /\ output.suite.Failed = output.suite.Total - output.suite.Passed
        /\ output.suite.PassRate =
               IF Len(input) = 0 THEN <<0, 1>>
               ELSE Rate(output.suite.Passed, Len(input))
        /\ output.summary.Total = output.suite.Total
        /\ output.summary.Passed = output.suite.Passed
        /\ output.summary.Failed = output.suite.Failed
        /\ output.summary.PassRate = output.suite.PassRate

\* three results, two of them passed, were summarized
C21_Witness ==
    /\ output # <<>>
    /\ Len(input) = 3
    /\ output.summary.Passed = 2
    /\ output.summary.PassRate = <<200, 3>>

\* the sum of the Duration fields of a sequence of results
RECURSIVE SumDuration(_)
SumDuration(rs) == IF rs = <<>> THEN 0 ELSE rs[1].Duration + SumDuration(Tail(rs))

\* C22: the total duration reported for a run equals the sum of the
\* per-case durations, both in the report summary (Summary.Duration) and in
\* the suite result the CLI prints (SuiteResult.Duration), so the two agree.
C22_DurationIsSumOfCases ==
    (proc.kind = "SuiteCLI" /\ proc.exited) =>
        /\ createSummary(results).Duration = SumDuration(results)
        /\ SuiteResultDuration = SumDuration(results)
        /\ SuiteResultDuration = createSummary(results).Duration

\* the class [a-z0-9_-]
TokenChar(c) == c \in {"a", "b", "f", "k", "o", "0", "1", "_", "-"}

\* every maximal run of characters outside [a-z0-9_-] becomes one "_"
RECURSIVE TokenRuns(_, _)
TokenRuns(s, inRun) ==
    IF s = <<>> THEN <<>>
    ELSE IF TokenChar(Head(s)) THEN <<Head(s)>> \o TokenRuns(Tail(s), FALSE)
    ELSE IF inRun THEN TokenRuns(Tail(s), TRUE)
    ELSE <<"_">> \o TokenRuns(Tail(s), TRUE)

\* the token of a name: lower-cased, runs replaced, "_" trimmed
Token(s) == Trim(TokenRuns([i \in 1..Len(s) |-> ToLowerChar(s[i])], FALSE))

\* C23: for every case name the filename token of its baseline and
\* screenshot files is the name lower-cased, with every maximal run of
\* characters outside [a-z0-9_-] replaced by one "_" and leading and
\* trailing "_" removed; the function never fails.
C23_TokenIsLowerCollapsedTrimmed ==
    output # <<>> => output.token = Token(input)

\* C24: sanitizing a name is idempotent and deterministic: sanitizing the
\* result again gives the result, and a repeated call on the same name
\* gives the same result.
C24_SanitizeIdempotent ==
    output # <<>> =>
        /\ output.nested = output.token
        /\ output.repeated = output.token

\* a name that sanitizing changes at both ends and in its case
C24_Witness ==
    /\ output # <<>>
    /\ output.pkg = "testing"
    /\ input = <<"/", "F", " ">>
    /\ output.token = <<"f">>
    /\ output.nested = <<"f">>

\* the test has an empty name, a name with one of / \ : * ? " < > |, a nil
\* Setup or a negative WaitDuration
InvalidConfig(t) ==
    \/ t.Name = <<>>
    \/ \E k \in 1..Len(t.Name) : t.Name[k] \in invalidChars
    \/ t.Setup = "nil"
    \/ t.WaitDuration < 0

\* C25: RunTest on a test with an invalid configuration returns a failed
\* Result carrying a configuration error before anything is rendered: Setup
\* is not called and no output directory, app, window or file is created.
C25_InvalidConfigFailsFast ==
    \A i \in DOMAIN pc :
        InvalidConfig(tests[i]) =>
            /\ effects[i] = NoEffects
            /\ testApp[i] = NilApp
            /\ window[i] = "none"
            /\ captured[i] = "none"
            /\ \A f \in outFiles : f[2] # i
            /\ pc[i] \notin {"setTheme", "render"}
            /\ pc[i] = "done" =>
                   /\ ~results[i].Success
                   /\ results[i].Error = "invalid test configuration"
                   /\ ~results[i].Screenshot
                   /\ results[i].ScreenshotPath = <<>>

\* RunTest has returned for a test with a nil Setup, before any app exists,
\* and the batch went on to capture the valid test after it
C25_Witness ==
    /\ Len(tests) = 2
    /\ Len(results) = 2
    /\ tests[1].Setup = "nil"
    /\ pc[1] = "done"
    /\ results[1].Error = "invalid test configuration"
    /\ results[2].Success
    /\ created = 1

\* C26: a crash in the middle of writing a baseline in update mode never
\* corrupts an existing baseline: after the crash the baseline path holds
\* the complete previous image or the complete new image.
C26_CrashKeepsBaseline ==
    (last.op = "Snapshot" /\ last.fault = "crash" /\ last.baseline.kind = "png")
        => fs[SnapshotPath(last.name)] \in {last.baseline, PngEncode(last.img)}

\* C27: at the end of every verify-mode Snapshot run of case n, an actual_n
\* or diff_n file exists in the screenshots directory only if that same run
\* wrote it, whatever runs preceded it.
C27_ArtifactsAreOfThisRun ==
    (last.op = "Snapshot" /\ ~last.update /\ ~last.panicked /\ last.fault = "none") =>
        /\ fs[ActualPath(last.name)] # Absent => ActualPath(last.name) \in last.wrote
        /\ fs[DiffPath(last.name)] # Absent => DiffPath(last.name) \in last.wrote
        /\ "Snapshot matched" \in last.msgs =>
               fs[ActualPath(last.name)] = Absent /\ fs[DiffPath(last.name)] = Absent
        /\ (last.baseline.kind = "png"
               /\ <<last.baseline.w, last.baseline.h>> # Bounds(last.img)) =>
               fs[DiffPath(last.name)] = Absent

\* C28: every Result returned by RunTest has Success exactly when Error is
\* nil; Success implies a Screenshot and a non-empty ScreenshotPath naming a
\* file this call wrote; a failed Result has an empty ScreenshotPath.
C28_ResultWellFormed ==
    \A i \in DOMAIN pc :
        pc[i] \in {"returned", "done"} =>
            /\ results[i].Success <=> results[i].Error = "nil"
            /\ results[i].Success =>
                   /\ results[i].Screenshot
                   /\ results[i].ScreenshotPath # <<>>
                   /\ effects[i].file = results[i].ScreenshotPath
                   /\ \E f \in outFiles : f[1] = results[i].ScreenshotPath
            /\ ~results[i].Success =>
                   /\ results[i].ScreenshotPath = <<>>
                   /\ effects[i].file = <<>>

\* one RunTest call returned a success, another a failure that captured an
\* image but could not save it
C28_Witness ==
    /\ Len(pc) = 2
    /\ pc[1] = "done" /\ pc[2] = "done"
    /\ results[1].Success
    /\ results[1].ScreenshotPath # <<>>
    /\ ~results[2].Success
    /\ results[2].Screenshot
    /\ results[2].Error = "failed to save screenshot"

\* C29: RunTests and RunTestsConcurrent always terminate and return exactly
\* one Result per input test, result i belonging to test i; the concurrent
\* call returns only after every case has finished, without deadlock for
\* any maxConcurrency and any number of tests.
C29_BatchTerminatesInOrder ==
    /\ [](call.returned =>
             /\ Len(results) = Len(tests)
             /\ \A i \in DOMAIN tests :
                    /\ pc[i] = "done"
                    /\ results[i] # NoResult
                    /\ results[i].Test = tests[i])
    /\ (call.kind # "none") ~> call.returned

\* a concurrent call with maxConcurrency 0 returned the results of two
\* different tests
C29_Witness ==
    /\ call.returned
    /\ call.kind = "RunTestsConcurrent"
    /\ call.arg = 0
    /\ Len(tests) = 2
    /\ tests[1] # tests[2]
    /\ results[1].Test = tests[1]
    /\ results[2].Test = tests[2]
    /\ semaphore = 0

\* C30: a Test returned by Build is not changed by later calls on the same
\* builder: its Metadata, Tags and other fields stay what they were when
\* Build returned it.
C30_BuiltTestUnchanged ==
    \A k \in DOMAIN built : Contents(built[k].test, heap) = built[k].contents
====
